---- MODULE Spec2Model ----
(***************************************************************************)
(* Model of the TDS token stream reader (processSingleResponse) and of the *)
(* consumer with cancellation (tokenProcessor) of token.go.                *)
(*                                                                         *)
(* The server's bytes are abstracted to a sequence of wire tokens, each a  *)
(* record [tag, arg, dec]: tag is the token byte, arg the DONE status word *)
(* or the ERROR number, dec the outcome of the token's decoder.  The       *)
(* reader task and the consumer are interleaved step by step; the channel  *)
(* is a FIFO of capacity QueueCap.                                         *)
(***************************************************************************)
EXTENDS Integers, Sequences, FiniteSets, TLC

(* ------------------------------------------------------------------ *)
(* token ids                                                           *)
(* ------------------------------------------------------------------ *)
tokenReturnStatus == 121
tokenColMetadata == 129
tokenOrder == 169
tokenError == 170
tokenInfo == 171
tokenReturnValue == 172
tokenLoginAck == 173
tokenFeatureExtAck == 174
tokenRow == 209
tokenNbcRow == 210
tokenEnvChange == 227
tokenSSPI == 237
tokenFedAuthInfo == 238
tokenDone == 253
tokenDoneProc == 254
tokenDoneInProc == 255
\* a byte that is none of the token ids
tokenUnknown == 0

(* done flags *)
doneFinal == 0
doneMore == 1
doneError == 2
doneInxact == 4
doneCount == 16
doneAttn == 32
doneSrvError == 256

\* capacity of the token channel
QueueCap == 5

(* ------------------------------------------------------------------ *)
(* bounds of the model                                                 *)
(* ------------------------------------------------------------------ *)
\* wire tokens the server sends on the connection, over all responses
MaxWire == 3
\* ERROR/INFO numbers on the wire are 1..MaxErrNo
MaxErrNo == 2

(* ------------------------------------------------------------------ *)
(* helpers                                                             *)
(* ------------------------------------------------------------------ *)
\* s & b != 0, for b a single bit
HasBit(s, b) == (s \div b) % 2 = 1

Last(s) == s[Len(s)]

IsPrefix(s, t) == Len(s) <= Len(t) /\ SubSeq(t, 1, Len(s)) = s

Readers == 1..2

(* ------------------------------------------------------------------ *)
(* wire tokens                                                         *)
(* ------------------------------------------------------------------ *)
\* dec is the outcome of the token's decoder: "ok" it returns; "badstream" it
\* panics with an error (badStreamPanic, a runtime error); "panicstring" it
\* panics with a string; "nometadata" COLMETADATA with count 0xffff;
\* "scanerror" RETURNVALUE whose scanIntoOut fails
T(tag, arg, dec) == [tag |-> tag, arg |-> arg, dec |-> dec]

\* The server's tokens of one run are drawn from one of these pools.
PoolCancel ==
    {T(tokenRow, 0, "ok"), T(tokenUnknown, 0, "ok"),
     T(tokenDone, doneFinal, "ok"), T(tokenDone, doneAttn, "ok"),
     T(tokenDone, doneMore, "ok"), T(tokenDone, doneMore + doneAttn, "ok"),
     T(tokenDoneInProc, doneAttn, "ok"), T(tokenDone, doneSrvError + doneAttn, "ok")}

PoolDone ==
    {T(tokenError, n, "ok") : n \in 1..MaxErrNo}
    \cup {T(tokenInfo, 1, "ok"), T(tokenDoneProc, doneFinal, "ok"),
          T(tokenDoneInProc, doneError, "ok")}
    \cup {T(tokenDone, st, "ok") : st \in {doneFinal, doneMore, doneMore + doneError}}

PoolRows ==
    {T(tokenColMetadata, 0, "ok"), T(tokenColMetadata, 0, "nometadata"),
     T(tokenColMetadata, 0, "panicstring"),
     T(tokenRow, 0, "ok"), T(tokenNbcRow, 0, "ok"),
     T(tokenDone, doneFinal, "ok"), T(tokenDone, doneMore, "ok")}

PoolAcks ==
    {T(t, 0, "ok") : t \in {tokenReturnStatus, tokenOrder, tokenLoginAck,
                            tokenFeatureExtAck, tokenSSPI, tokenFedAuthInfo}}
    \cup {T(tokenDoneProc, doneFinal, "ok")}

PoolAborts ==
    {T(tokenEnvChange, <<>>, "ok"), T(tokenEnvChange, <<>>, "badstream"),
     T(tokenReturnValue, 0, "ok"), T(tokenReturnValue, 0, "scanerror"),
     T(tokenDone, doneSrvError, "ok"), T(tokenDoneProc, doneSrvError + doneMore, "ok"),
     T(tokenDoneProc, doneFinal, "ok")}

Pools == {PoolCancel, PoolDone, PoolRows, PoolAcks, PoolAborts}

(* ------------------------------------------------------------------ *)
(* values on the token channel                                         *)
(* ------------------------------------------------------------------ *)
\* idx: position on the wire of the token the value was parsed from (0: none)
\* cols: for a Columns, 1 if it carries metadata; for a Row, the reader's
\*       current columns (0 = nil, else the idx of its COLMETADATA)
Val(kind, idx, status, errors, cols, msg) ==
    [kind |-> kind, idx |-> idx, status |-> status, errors |-> errors,
     cols |-> cols, msg |-> msg]

Simple(kind, idx) == Val(kind, idx, 0, <<>>, 0, "")

ErrVal(idx, msg) == Val("Err", idx, 0, <<>>, 0, msg)

\* the recovered panic value is an error unless the code panicked with a string
IsGoError(v) == v.kind = "Err" /\ v.msg # "panic string"

\* Error{Number: n} of an ERROR token
SqlError(n) == [Number |-> n, Message |-> "server"]

NoReason == [Number |-> 0, Message |-> "Request failed but didn't provide reason"]

\* doneStruct.isError
isError(d) == HasBit(d.status, doneError) \/ Len(d.errors) > 0

\* doneStruct.getError
getError(d) == IF Len(d.errors) > 0 THEN d.errors[Len(d.errors)] ELSE NoReason


(* ------------------------------------------------------------------ *)
(* ENVCHANGE: processEnvChg                                            *)
(* ------------------------------------------------------------------ *)
(* ENVCHANGE types *)
envTypDatabase == 1
envTypLanguage == 2
envTypCharset == 3
envTypPacketSize == 4
envSortId == 5
envSortFlags == 6
envSqlCollation == 7
envTypBeginTran == 8
envTypCommitTran == 9
envTypRollbackTran == 10
envEnlistDTC == 11
envDefectTran == 12
envDatabaseMirrorPartner == 13
envPromoteTran == 15
envTranMgrAddr == 16
envTranEnded == 17
envResetConnAck == 18
envStartedInstanceName == 19
envRouting == 20

\* the fields of tdsSession that the token stream writes, as numbers: 0 is
\* the empty string, the zero tranid or port, the buffer size as it was
\* made, no private key
NewSession ==
    [database |-> 0, tranid |-> 0, partner |-> 0, routedServer |-> 0,
     routedPort |-> 0, packetSize |-> 0, pKey |-> 0]

\* One sub-record of an ENVCHANGE, as the reads of its case see it:
\* typ the type byte; val the new value read (a name, the tranid, the
\* packet size, the server); len the length of the byte slice read for a
\* BeginTran, the collation size for a SqlCollation; port and proto the
\* routing port and protocol; err which read returned an error: "" none,
\* "new" that of the new value, "old" that of the old value, "atoi" the
\* conversion of the packet size
EnvRec(typ, val, len, port, proto, err) ==
    [typ |-> typ, val |-> val, len |-> len, port |-> port, proto |-> proto,
     err |-> err]

\* the result of a case: the session, the fields it assigned, and "next"
\* (the loop goes on), "badstream" (badStreamPanic) or "unknown" (return)
EnvRes(s, out, wrote) == [sess |-> s, out |-> out, wrote |-> wrote]

\* the types whose two values are read and ignored
envIgnored ==
    {envTypLanguage, envTypCharset, envSortId, envSortFlags, envEnlistDTC,
     envDefectTran, envPromoteTran, envTranMgrAddr, envTranEnded,
     envResetConnAck, envStartedInstanceName}

\* case envTypBeginTran
EnvBeginTranAdds(s, r) ==
    IF r.len # 8 THEN EnvRes(s, "badstream", {})
    ELSE EnvRes([s EXCEPT !.tranid = (s.tranid + r.val) % 4],
                IF r.err = "" THEN "next" ELSE "badstream", {"tranid"})

EnvBeginTran(s, r) ==
    IF r.len # 8 THEN EnvRes(s, "badstream", {})
    ELSE EnvRes([s EXCEPT !.tranid = r.val],
                IF r.err = "" THEN "next" ELSE "badstream", {"tranid"})

\* case envTypCommitTran, envTypRollbackTran
EnvEndTranKeeps(s, r) ==
    IF r.err # "" THEN EnvRes(s, "badstream", {})
    ELSE EnvRes(s, "next", {})

EnvEndTran(s, r) ==
    IF r.err # "" THEN EnvRes(s, "badstream", {})
    ELSE EnvRes([s EXCEPT !.tranid = 0], "next", {"tranid"})

\* case envRouting: the value length, the protocol, the new port, the new
\* server and the old value are read, and only then are the two fields set
EnvRoutingAnyProtocol(s, r) ==
    IF r.err # "" THEN EnvRes(s, "badstream", {})
    ELSE EnvRes([s EXCEPT !.routedServer = r.val, !.routedPort = r.port],
                IF r.proto # 0 THEN "badstream" ELSE "next",
                {"routedServer", "routedPort"})

EnvRouting(s, r) ==
    IF r.err # "" \/ r.proto # 0 THEN EnvRes(s, "badstream", {})
    ELSE EnvRes([s EXCEPT !.routedServer = r.val, !.routedPort = r.port],
                "next", {"routedServer", "routedPort"})

\* the switch of processEnvChg on one sub-record
EnvRecord(s, r) ==
    CASE r.typ = envTypDatabase ->
            EnvRes([s EXCEPT !.database = r.val],
                   IF r.err = "" THEN "next" ELSE "badstream", {"database"})
      [] r.typ = envDatabaseMirrorPartner ->
            EnvRes([s EXCEPT !.partner = r.val],
                   IF r.err = "" THEN "next" ELSE "badstream", {"partner"})
      [] r.typ \in envIgnored ->
            EnvRes(s, IF r.err = "" THEN "next" ELSE "badstream", {})
      [] r.typ = envSqlCollation ->
            EnvRes(s, IF r.err = "" /\ r.len = 5 THEN "next" ELSE "badstream", {})
      [] r.typ = envTypPacketSize ->
            IF r.err # "" THEN EnvRes(s, "badstream", {})
            ELSE EnvRes([s EXCEPT !.packetSize = r.val], "next", {"packetSize"})
      [] r.typ = envTypBeginTran -> EnvBeginTran(s, r)
      [] r.typ \in {envTypCommitTran, envTypRollbackTran} -> EnvEndTran(s, r)
      [] r.typ = envRouting -> EnvRouting(s, r)
      [] OTHER -> EnvRes(s, "unknown", {})

\* processEnvChg on the sub-records of one ENVCHANGE: out is "eof" when the
\* loop ended at the end of the record
RECURSIVE processEnvChg(_, _)
processEnvChg(s, recs) ==
    IF recs = <<>> THEN EnvRes(s, "eof", {})
    ELSE LET e == EnvRecord(s, Head(recs)) IN
         IF e.out # "next" THEN e
         ELSE LET rest == processEnvChg(e.sess, Tail(recs)) IN
              EnvRes(rest.sess, rest.out, e.wrote \cup rest.wrote)

\* case tokenEnvChange, and the loading of the keystore by a COLMETADATA of
\* a session with Always Encrypted (arg 1) that has no private key yet:
\* what the reader task makes of the session while it parses the token
EnvChangeDropped(s, tok) == EnvRes(s, "eof", {})

EnvChangeCase(s, tok) == processEnvChg(s, tok.arg)

ParseEffectStoresColumns(s, tok) ==
    IF tok.dec # "ok" THEN EnvRes(s, "eof", {})
    ELSE IF tok.tag = tokenEnvChange THEN EnvChangeCase(s, tok)
    ELSE IF tok.tag = tokenColMetadata /\ tok.arg = 1 /\ s.pKey = 0
    THEN EnvRes([s EXCEPT !.pKey = 1], "eof", {"pKey", "columns"})
    ELSE IF tok.tag = tokenColMetadata
    THEN EnvRes(s, "eof", {"columns"})
    ELSE EnvRes(s, "eof", {})

ParseEffect(s, tok) ==
    IF tok.dec # "ok" THEN EnvRes(s, "eof", {})
    ELSE IF tok.tag = tokenEnvChange THEN EnvChangeCase(s, tok)
    ELSE IF tok.tag = tokenColMetadata /\ tok.arg = 1 /\ s.pKey = 0
    THEN EnvRes([s EXCEPT !.pKey = 1], "eof", {"pKey"})
    ELSE EnvRes(s, "eof", {})

SessionAfter(s, tok) == ParseEffect(s, tok).sess

FieldsWritten(s, tok) == ParseEffect(s, tok).wrote

\* no decoder is called on its own
NoCall == [fn |-> "none"]

\* The tokens of the runs that follow the session: ENVCHANGEs of one and of
\* several sub-records, one of them aborting after its first sub-record,
\* one with a sub-record of a type the switch does not know; a COLMETADATA
\* that loads the keystore; a ROW; a RETURNSTATUS; a final DONE.
PoolSess ==
    {T(tokenEnvChange, <<EnvRec(envTypDatabase, 1, 0, 0, 0, "")>>, "ok"),
     T(tokenEnvChange, <<EnvRec(envTypBeginTran, 1, 8, 0, 0, ""),
                         EnvRec(envRouting, 1, 0, 1, 0, "")>>, "ok"),
     T(tokenEnvChange, <<EnvRec(envTypPacketSize, 1, 0, 0, 0, ""),
                         EnvRec(envTypBeginTran, 2, 7, 0, 0, "")>>, "ok"),
     T(tokenEnvChange, <<EnvRec(envTypCommitTran, 0, 0, 0, 0, ""),
                         EnvRec(14, 0, 0, 0, 0, ""),
                         EnvRec(envDatabaseMirrorPartner, 1, 0, 0, 0, "")>>, "ok"),
     T(tokenColMetadata, 1, "ok"), T(tokenRow, 0, "ok"),
     T(tokenReturnStatus, 0, "ok"), T(tokenDone, doneFinal, "ok")}

\* The tokens of the runs that follow aggregation: what iterateResponse
\* aggregates, a server error, the cancellation confirmation.
PoolDrain ==
    {T(tokenColMetadata, 0, "ok"), T(tokenRow, 0, "ok"),
     T(tokenDoneInProc, doneCount, "ok"), T(tokenDone, doneMore + doneError, "ok"),
     T(tokenDoneProc, doneSrvError + doneMore, "ok"), T(tokenDone, doneAttn, "ok")}

\* The tokens of the runs that follow a scan error: a RETURNVALUE whose
\* value cannot be assigned to its output parameter, rows, a final DONE.
PoolScan ==
    {T(tokenReturnValue, 0, "scanerror"), T(tokenRow, 0, "ok"),
     T(tokenDone, doneFinal, "ok")}

\* tokens of such a response: enough to fill the channel after the error
MaxScanWire == 8

(* ------------------------------------------------------------------ *)
(* processSingleResponse: one iteration of the token loop              *)
(* ------------------------------------------------------------------ *)
\* what the switch does with the token at wire position idx, the reader's
\* columns and errs being as given: emit is the value sent on the channel (a
\* sequence of length 0 or 1), after is "loop" or "return" (a panic returns
\* through the deferred recover, which sends the recovered value)
Step(emit, after, columns, errs) ==
    [emit |-> emit, after |-> after, columns |-> columns, errs |-> errs]

\* badStreamPanic(err), badStreamPanicf: the panic is recovered by the
\* deferred function, which sends the recovered error
badStreamPanic(idx, columns, errs) ==
    Step(<<ErrVal(idx, "bad stream")>>, "return", columns, errs)

\* case tokenDone, tokenDoneProc
DoneCaseReturnsOnMore(tok, idx, columns, errs) ==
    IF HasBit(tok.arg, doneSrvError)
    THEN Step(<<ErrVal(idx, "SQL Server had internal error")>>, "return", columns, errs)
    ELSE Step(<<Val("Done", idx, tok.arg, errs, 0, "")>>,
              IF HasBit(tok.arg, doneMore) THEN "return" ELSE "loop", columns, errs)

DoneCaseIgnoresSrvError(tok, idx, columns, errs) ==
    Step(<<Val("Done", idx, tok.arg, errs, 0, "")>>,
         IF HasBit(tok.arg, doneMore) THEN "loop" ELSE "return", columns, errs)

DoneCase(tok, idx, columns, errs) ==
    IF HasBit(tok.arg, doneSrvError)
    THEN Step(<<ErrVal(idx, "SQL Server had internal error")>>, "return", columns, errs)
    ELSE Step(<<Val("Done", idx, tok.arg, errs, 0, "")>>,
              IF HasBit(tok.arg, doneMore) THEN "loop" ELSE "return", columns, errs)

\* case tokenError
ErrorCaseKeepsLatest(tok, idx, columns, errs) ==
    Step(<<>>, "loop", columns, <<SqlError(tok.arg)>>)

ErrorCase(tok, idx, columns, errs) ==
    Step(<<>>, "loop", columns, Append(errs, SqlError(tok.arg)))

\* default: unknown token type
DefaultCaseSilent(tok, idx, columns, errs) ==
    Step(<<>>, "return", columns, errs)

DefaultCase(tok, idx, columns, errs) ==
    badStreamPanic(idx, columns, errs)

Dispatch(tok, idx, columns, errs) ==
    IF tok.dec = "badstream"
    THEN badStreamPanic(idx, columns, errs)
    ELSE IF tok.dec = "panicstring"
    THEN Step(<<ErrVal(idx, "panic string")>>, "return", columns, errs)
    ELSE CASE tok.tag = tokenSSPI ->
              Step(<<Simple("SspiMsg", idx)>>, "return", columns, errs)
           [] tok.tag = tokenFedAuthInfo ->
              Step(<<Simple("FedAuthInfo", idx)>>, "return", columns, errs)
           [] tok.tag = tokenReturnStatus ->
              Step(<<Simple("ReturnStatus", idx)>>, "loop", columns, errs)
           [] tok.tag = tokenLoginAck ->
              Step(<<Simple("LoginAck", idx)>>, "loop", columns, errs)
           [] tok.tag = tokenFeatureExtAck ->
              Step(<<Simple("FeatureExtAck", idx)>>, "loop", columns, errs)
           [] tok.tag = tokenOrder ->
              Step(<<Simple("Order", idx)>>, "loop", columns, errs)
           [] tok.tag = tokenDoneInProc ->
              Step(<<Val("DoneInProc", idx, tok.arg, <<>>, 0, "")>>, "loop", columns, errs)
           [] tok.tag \in {tokenDone, tokenDoneProc} ->
              DoneCase(tok, idx, columns, errs)
           [] tok.tag = tokenColMetadata ->
              IF tok.dec = "nometadata"
              THEN Step(<<Val("Columns", idx, 0, <<>>, 0, "")>>, "loop", 0, errs)
              ELSE Step(<<Val("Columns", idx, 0, <<>>, 1, "")>>, "loop", idx, errs)
           [] tok.tag \in {tokenRow, tokenNbcRow} ->
              Step(<<Val("Row", idx, 0, <<>>, columns, "")>>, "loop", columns, errs)
           [] tok.tag = tokenEnvChange ->
              IF processEnvChg(NewSession, tok.arg).out = "badstream"
              THEN badStreamPanic(idx, columns, errs)
              ELSE Step(<<>>, "loop", columns, errs)
           [] tok.tag = tokenError ->
              ErrorCase(tok, idx, columns, errs)
           [] tok.tag = tokenInfo ->
              Step(<<>>, "loop", columns, errs)
           [] tok.tag = tokenReturnValue ->
              IF tok.dec = "scanerror"
              THEN Step(<<ErrVal(idx, "scan error")>>, "loop", columns, errs)
              ELSE Step(<<>>, "loop", columns, errs)
           [] OTHER ->
              DefaultCase(tok, idx, columns, errs)

(* ------------------------------------------------------------------ *)
(* state                                                               *)
(* ------------------------------------------------------------------ *)
VARIABLES
    pool,        \* the wire tokens the server may send in this run
    wire,        \* wire[i]: the tokens reader i has read from its response
    rpc,         \* rpc[i]: "idle", "begin", "loop", "send", "return", "done"
    columns,     \* columns[i]: processSingleResponse's local columns
    errs,        \* errs[i]: processSingleResponse's local errs
    pend,        \* pend[i]: the value reader i is sending, and what follows
    chan,        \* chan[i]: the token channel made for reader i
    closed,      \* closed[i]: the channel has been closed
    emitted,     \* emitted[i]: every value reader i has sent, in order
    cpc,         \* consumer: "poll", "wait", "drain", "returned"
    cur,         \* t.tokChan: the channel the consumer reads
    ctxDone,     \* the context is cancelled
    attnSent,    \* attention packets sent
    firstError,  \* t.firstError: <<>> is nil
    lastRow,     \* t.lastRow: idx of the row, 0 is nil
    rowCount,    \* t.rowCount
    sessColumns, \* t.sess.columns: idx of the Columns, 0 is nil
    returnStatus,\* t.sess.returnStatus: idx of the ReturnStatus, 0 is none
    result,      \* what iterateResponse returned, "none" while it runs
    delivered,   \* every value nextToken returned to iterateResponse, in order
    drained,     \* drained[i]: the values readCancelConfirmation took from chan[i]
    polledCancelled, \* the first select received a value with the context cancelled
    sess,        \* the session's fields that the token stream sets
    writers,     \* <<field, task>>: the task has written the session's field
    call,        \* a decoder called on its own: its name and its input
    ret          \* what the decoder made of it, one entry per call

rvars == <<wire, rpc, columns, errs, pend, chan, closed, emitted>>
cvars == <<cpc, cur, ctxDone, attnSent, firstError, lastRow, rowCount,
           sessColumns, returnStatus, result, delivered, drained, polledCancelled>>
fvars == <<call, ret>>
vars == <<pool, wire, rpc, columns, errs, pend, chan, closed, emitted,
          cpc, cur, ctxDone, attnSent, firstError, lastRow, rowCount,
          sessColumns, returnStatus, result, delivered, drained, polledCancelled,
          sess, writers, call, ret>>

WireLen == Len(wire[1]) + Len(wire[2])

\* the number of tokens after which the server's response ends
WireBound == IF pool = PoolScan THEN MaxScanWire ELSE MaxWire

\* startReading: the channel is made and the first reader task started, the
\* server's tokens being those of p
Machine(p) ==
    /\ pool = p
    /\ sess = NewSession
    /\ writers = {}
    /\ wire = [i \in Readers |-> <<>>]
    /\ rpc = [i \in Readers |-> IF i = 1 THEN "begin" ELSE "idle"]
    /\ columns = [i \in Readers |-> 0]
    /\ errs = [i \in Readers |-> <<>>]
    /\ pend = [i \in Readers |-> <<>>]
    /\ chan = [i \in Readers |-> <<>>]
    /\ closed = [i \in Readers |-> FALSE]
    /\ emitted = [i \in Readers |-> <<>>]
    /\ cpc = "poll"
    /\ cur = 1
    /\ ctxDone = FALSE
    /\ attnSent = 0
    /\ firstError = <<>>
    /\ lastRow = 0
    /\ rowCount = 0
    /\ sessColumns = 0
    /\ returnStatus = 0
    /\ result = "none"
    /\ delivered = <<>>
    /\ drained = [i \in Readers |-> <<>>]
    /\ polledCancelled = FALSE

Start(p) == Machine(p) /\ call = NoCall /\ ret = <<>>

Init == \E p \in Pools : Start(p)

(* ------------------------------------------------------------------ *)
(* the reader task                                                     *)
(* ------------------------------------------------------------------ *)
\* the reader goes on to send the values of a step, or to what follows it
Proceed(i, st) ==
    /\ columns' = [columns EXCEPT ![i] = st.columns]
    /\ errs' = [errs EXCEPT ![i] = st.errs]
    /\ IF st.emit = <<>>
       THEN /\ rpc' = [rpc EXCEPT ![i] = st.after]
            /\ pend' = pend
       ELSE /\ rpc' = [rpc EXCEPT ![i] = "send"]
            /\ pend' = [pend EXCEPT ![i] = <<[val |-> st.emit[1], after |-> st.after]>>]

\* sess.buf.BeginRead() and the check of the packet type
BeginRead(i) ==
    /\ rpc[i] = "begin"
    /\ \E outcome \in {"reply", "other", "error"} :
          Proceed(i, CASE outcome = "reply" -> Step(<<>>, "loop", 0, <<>>)
                       [] outcome = "other" -> badStreamPanic(0, 0, <<>>)
                       [] outcome = "error" ->
                          Step(<<ErrVal(0, "BeginRead failed")>>, "return", 0, <<>>))
    /\ UNCHANGED <<pool, wire, chan, closed, emitted, sess, writers>>
    /\ UNCHANGED cvars
    /\ UNCHANGED fvars

\* one iteration of the loop: read the token byte and run its case, up to
\* the send; past the end of what the server sends, sess.buf.byte() panics
ReadToken(i) ==
    /\ rpc[i] = "loop"
    /\ IF WireLen < WireBound
       THEN \E tok \in pool :
               /\ wire' = [wire EXCEPT ![i] = Append(@, tok)]
               /\ Proceed(i, Dispatch(tok, Len(wire[i]) + 1, columns[i], errs[i]))
               /\ sess' = SessionAfter(sess, tok)
               /\ writers' = writers \cup {<<f, "reader">> : f \in FieldsWritten(sess, tok)}
       ELSE /\ wire' = wire
            /\ Proceed(i, badStreamPanic(Len(wire[i]) + 1, columns[i], errs[i]))
            /\ UNCHANGED <<sess, writers>>
    /\ UNCHANGED <<pool, chan, closed, emitted>>
    /\ UNCHANGED cvars
    /\ UNCHANGED fvars

\* ch <- value: blocks while the channel is full
ChanSendInFront(q, v) == <<v>> \o q

ChanSend(q, v) == Append(q, v)

SendToken(i) ==
    /\ rpc[i] = "send"
    /\ Len(chan[i]) < QueueCap
    /\ chan' = [chan EXCEPT ![i] = ChanSend(@, pend[i][1].val)]
    /\ emitted' = [emitted EXCEPT ![i] = Append(@, pend[i][1].val)]
    /\ rpc' = [rpc EXCEPT ![i] = pend[i][1].after]
    /\ pend' = [pend EXCEPT ![i] = <<>>]
    /\ UNCHANGED <<pool, wire, columns, errs, closed, sess, writers>>
    /\ UNCHANGED cvars
    /\ UNCHANGED fvars

\* the deferred close(ch)
CloseChanForgotten(i) ==
    /\ rpc[i] = "return"
    /\ rpc' = [rpc EXCEPT ![i] = "done"]
    /\ UNCHANGED <<pool, wire, columns, errs, pend, chan, closed, emitted, sess, writers>>
    /\ UNCHANGED cvars
    /\ UNCHANGED fvars

CloseChan(i) ==
    /\ rpc[i] = "return"
    /\ closed' = [closed EXCEPT ![i] = TRUE]
    /\ rpc' = [rpc EXCEPT ![i] = "done"]
    /\ UNCHANGED <<pool, wire, columns, errs, pend, chan, emitted, sess, writers>>
    /\ UNCHANGED cvars
    /\ UNCHANGED fvars


(* ------------------------------------------------------------------ *)
(* the consumer: iterateResponse, nextToken, readCancelConfirmation    *)
(* ------------------------------------------------------------------ *)
\* case doneStruct of iterateResponse: t.firstError after the token
FirstErrorOverwritten(v, fe) ==
    IF isError(v) THEN <<getError(v)>> ELSE fe

FirstErrorAfter(v, fe) ==
    IF isError(v) /\ fe = <<>> THEN <<getError(v)>> ELSE fe

\* the switch of iterateResponse on a token nextToken returned without error
Aggregate(v) ==
    /\ sessColumns' = IF v.kind = "Columns" THEN v.idx ELSE sessColumns
    /\ lastRow' = IF v.kind = "Row" THEN v.idx ELSE lastRow
    /\ rowCount' = IF v.kind \in {"Done", "DoneInProc"} /\ HasBit(v.status, doneCount)
                   THEN rowCount + 1 ELSE rowCount
    /\ firstError' = IF v.kind = "Done" THEN FirstErrorAfter(v, firstError)
                     ELSE firstError
    /\ returnStatus' = IF v.kind = "ReturnStatus" THEN v.idx ELSE returnStatus
    /\ writers' = writers \cup
          (CASE v.kind = "Columns" -> {<<"columns", "consumer">>}
             [] v.kind = "ReturnStatus" -> {<<"returnStatus", "consumer">>}
             [] OTHER -> {})

\* nextToken received from the channel: a value, or the zero value of a
\* closed channel; iterateResponse then returns or goes round its loop
Receive ==
    IF chan[cur] # <<>>
    THEN LET v == Head(chan[cur]) IN
         /\ chan' = [chan EXCEPT ![cur] = Tail(@)]
         /\ delivered' = Append(delivered, v)
         /\ IF IsGoError(v)
            THEN /\ result' = "chanError"
                 /\ cpc' = "returned"
                 /\ UNCHANGED <<sessColumns, lastRow, rowCount, firstError, returnStatus,
                                writers>>
            ELSE /\ Aggregate(v)
                 /\ cpc' = "poll"
                 /\ result' = result
    ELSE /\ closed[cur]
         /\ result' = "normal"
         /\ cpc' = "returned"
         /\ UNCHANGED <<chan, delivered, sessColumns, lastRow, rowCount, firstError,
                        returnStatus, writers>>

\* the first select of nextToken can receive: a value is queued or the
\* channel is closed; the context is not among its cases
PollReadyUnlessCancelled == ~ctxDone /\ (chan[cur] # <<>> \/ closed[cur])

PollReady == chan[cur] # <<>> \/ closed[cur]

\* the first select of nextToken: receive without blocking, else go and wait
NextTokenPoll ==
    /\ cpc = "poll"
    /\ IF PollReady
       THEN /\ Receive
            /\ polledCancelled' = (polledCancelled \/ (ctxDone /\ chan[cur] # <<>>))
       ELSE /\ cpc' = "wait"
            /\ UNCHANGED <<chan, delivered, result, sessColumns, lastRow, rowCount,
                           firstError, returnStatus, polledCancelled, writers>>
    /\ UNCHANGED <<pool, wire, rpc, columns, errs, pend, closed, emitted, sess>>
    /\ UNCHANGED <<cur, ctxDone, attnSent, drained>>
    /\ UNCHANGED fvars

\* the second select of nextToken, case of the token channel
NextTokenRecv ==
    /\ cpc = "wait"
    /\ chan[cur] # <<>> \/ closed[cur]
    /\ Receive
    /\ UNCHANGED <<pool, wire, rpc, columns, errs, pend, closed, emitted, sess>>
    /\ UNCHANGED <<cur, ctxDone, attnSent, drained, polledCancelled>>
    /\ UNCHANGED fvars

\* the second select of nextToken, case of ctx.Done(): sendAttention, which
\* sends the packet or fails
NextTokenCancel ==
    /\ cpc = "wait"
    /\ ctxDone
    /\ \E sent \in BOOLEAN :
          IF sent
          THEN /\ attnSent' = attnSent + 1
               /\ cpc' = "drain"
               /\ result' = result
          ELSE /\ attnSent' = attnSent
               /\ cpc' = "returned"
               /\ result' = "attentionError"
    /\ UNCHANGED rvars
    /\ UNCHANGED <<pool, cur, ctxDone, firstError, lastRow, rowCount, sessColumns,
                   returnStatus, delivered, drained, polledCancelled, sess, writers>>
    /\ UNCHANGED fvars

\* the case of readCancelConfirmation that ends the drain
IsConfirmationAnyDone(v) == v.kind \in {"Done", "DoneInProc"} /\ HasBit(v.status, doneAttn)

IsConfirmation(v) == v.kind = "Done" /\ HasBit(v.status, doneAttn)

\* what nextToken returns after readCancelConfirmation: t.ctx.Err() when the
\* confirmation was found, the fatal error when the next response had none
DrainVerdictSilent(found) == IF found THEN "ctxError" ELSE "normal"

DrainVerdict(found) == IF found THEN "ctxError" ELSE "noConfirmation"

\* what readCancelConfirmation does with a value besides looking for the
\* confirmation: 'just skip token'
DrainAggregates(v) == Aggregate(v)

DrainSkips(v) ==
    UNCHANGED <<firstError, lastRow, rowCount, sessColumns, returnStatus, writers>>

\* readCancelConfirmation takes one value from the channel
DrainToken ==
    /\ cpc = "drain"
    /\ chan[cur] # <<>>
    /\ LET v == Head(chan[cur]) IN
       /\ chan' = [chan EXCEPT ![cur] = Tail(@)]
       /\ drained' = [drained EXCEPT ![cur] = Append(@, v)]
       /\ DrainSkips(v)
       /\ IF IsConfirmation(v)
          THEN /\ cpc' = "returned"
               /\ result' = DrainVerdict(TRUE)
          ELSE /\ cpc' = cpc
               /\ result' = result
    /\ UNCHANGED <<pool, wire, rpc, columns, errs, pend, closed, emitted, sess>>
    /\ UNCHANGED <<cur, ctxDone, attnSent, delivered, polledCancelled>>
    /\ UNCHANGED fvars

\* readCancelConfirmation finds the channel closed and returns false: after
\* the current response a new channel and reader are started, after the
\* next one nextToken gives up
DrainClosedWhenEmpty ==
    /\ cpc = "drain"
    /\ chan[cur] = <<>>
    /\ IF cur = 1
       THEN /\ cur' = 2
            /\ rpc' = [rpc EXCEPT ![2] = "begin"]
            /\ cpc' = cpc
            /\ result' = result
       ELSE /\ cur' = cur
            /\ rpc' = rpc
            /\ cpc' = "returned"
            /\ result' = DrainVerdict(FALSE)
    /\ UNCHANGED <<pool, wire, columns, errs, pend, chan, closed, emitted>>
    /\ UNCHANGED <<ctxDone, attnSent, firstError, lastRow, rowCount, sessColumns,
                   returnStatus, delivered, drained, polledCancelled, sess, writers>>
    /\ UNCHANGED fvars

DrainClosed ==
    /\ cpc = "drain"
    /\ chan[cur] = <<>>
    /\ closed[cur]
    /\ IF cur = 1
       THEN /\ cur' = 2
            /\ rpc' = [rpc EXCEPT ![2] = "begin"]
            /\ cpc' = cpc
            /\ result' = result
       ELSE /\ cur' = cur
            /\ rpc' = rpc
            /\ cpc' = "returned"
            /\ result' = DrainVerdict(FALSE)
    /\ UNCHANGED <<pool, wire, columns, errs, pend, chan, closed, emitted>>
    /\ UNCHANGED <<ctxDone, attnSent, firstError, lastRow, rowCount, sessColumns,
                   returnStatus, delivered, drained, polledCancelled, sess, writers>>
    /\ UNCHANGED fvars

\* the caller cancels the context while iterateResponse runs
Cancel ==
    /\ ~ctxDone
    /\ cpc # "returned"
    /\ ctxDone' = TRUE
    /\ UNCHANGED rvars
    /\ UNCHANGED <<pool, cpc, cur, attnSent, firstError, lastRow, rowCount, sessColumns,
                   returnStatus, result, delivered, drained, polledCancelled, sess, writers>>
    /\ UNCHANGED fvars

ReaderTask(i) == BeginRead(i) \/ ReadToken(i) \/ SendToken(i) \/ CloseChan(i)

Reader == \E i \in Readers : ReaderTask(i)

Consumer == NextTokenPoll \/ NextTokenRecv \/ NextTokenCancel \/ DrainToken \/ DrainClosed

Next == Reader \/ Consumer \/ Cancel

Spec == Init /\ [][Next]_vars

\* The cancellation runs: the server's tokens are those of PoolCancel.  The
\* reader tasks and the consumer are goroutines, which the scheduler runs
\* whenever they can take a step.
CancelInit == Init /\ pool = PoolCancel

FairSpec ==
    /\ CancelInit
    /\ [][Next]_vars
    /\ \A i \in Readers : WF_vars(ReaderTask(i))
    /\ WF_vars(Consumer)

\* the runs on the tokens of PoolSess and of PoolDrain
SessInit == Start(PoolSess)

SessSpec == SessInit /\ [][Next]_vars

DrainInit == Start(PoolDrain)

DrainSpec == DrainInit /\ [][Next]_vars

\* The tokens of the runs that follow routing: an ENVCHANGE that routes over
\* TCP, one whose routing protocol is not TCP, one that sets the database
\* and then meets a routing sub-record whose protocol is not TCP; a ROW; a
\* final DONE.
PoolRoute ==
    {T(tokenEnvChange, <<EnvRec(envRouting, 1, 0, 1, 0, "")>>, "ok"),
     T(tokenEnvChange, <<EnvRec(envRouting, 2, 0, 2, 1, "")>>, "ok"),
     T(tokenEnvChange, <<EnvRec(envTypDatabase, 1, 0, 0, 0, ""),
                         EnvRec(envRouting, 2, 0, 2, 1, ""),
                         EnvRec(envRouting, 2, 0, 2, 0, "")>>, "ok"),
     T(tokenRow, 0, "ok"), T(tokenDone, doneFinal, "ok")}

RouteInit == Start(PoolRoute)

RouteSpec == RouteInit /\ [][Next]_vars

\* the runs on the tokens of PoolScan; the reader tasks and the consumer
\* are goroutines, which the scheduler runs whenever they can take a step
ScanInit == Start(PoolScan)

ScanSpec ==
    /\ ScanInit
    /\ [][Next]_vars
    /\ \A i \in Readers : WF_vars(ReaderTask(i))
    /\ WF_vars(Consumer)

(* ------------------------------------------------------------------ *)
(* the decoders, called on their own                                   *)
(* ------------------------------------------------------------------ *)
\* the decoders leave the reader tasks and the consumer where they are
Still ==
    /\ UNCHANGED <<pool, wire, rpc, columns, errs, pend, chan, closed, emitted>>
    /\ UNCHANGED cvars
    /\ UNCHANGED <<sess, writers, call>>

(* bounds of the decoders' inputs *)
\* sub-records of one ENVCHANGE
MaxRecs == 2
\* options of one FEDAUTHINFO
MaxOpts == 1
\* entries of a CEK table, columns of a COLMETADATA
MaxCek == 2
MaxCols == 2

SeqsUpTo(S, n) == UNION {[1..k -> S] : k \in 0..n}

(* ---- processEnvChg ---- *)
\* a session that has been in use
UsedSession ==
    [database |-> 2, tranid |-> 2, partner |-> 2, routedServer |-> 2,
     routedPort |-> 2, packetSize |-> 2, pKey |-> 0]

\* the sub-records the server may send: well-formed ones, and ones whose
\* reads fail or whose lengths are not the expected ones
EnvRecs ==
    {EnvRec(envTypDatabase, v, 0, 0, 0, "") : v \in 1..2}
    \cup {EnvRec(envTypBeginTran, v, 8, 0, 0, "") : v \in {1, 3}}
    \cup {EnvRec(envTypBeginTran, 1, 7, 0, 0, ""), EnvRec(envTypBeginTran, 0, 0, 0, 0, "new"),
          EnvRec(envTypBeginTran, 3, 8, 0, 0, "new"), EnvRec(envTypBeginTran, 1, 8, 0, 0, "old"),
          EnvRec(envTypCommitTran, 0, 0, 0, 0, ""), EnvRec(envTypRollbackTran, 0, 0, 0, 0, ""),
          EnvRec(envTypCommitTran, 0, 0, 0, 0, "old"),
          EnvRec(envTypPacketSize, 1, 0, 0, 0, ""), EnvRec(envTypPacketSize, 1, 0, 0, 0, "atoi"),
          EnvRec(envDatabaseMirrorPartner, 1, 0, 0, 0, ""),
          EnvRec(envRouting, 1, 0, 1, 0, ""), EnvRec(envRouting, 1, 0, 1, 1, ""),
          EnvRec(envTypLanguage, 1, 0, 0, 0, ""), EnvRec(envSqlCollation, 0, 5, 0, 0, ""),
          EnvRec(envSqlCollation, 0, 4, 0, 0, ""), EnvRec(14, 0, 0, 0, 0, "")}

EnvChgInit ==
    /\ Machine({})
    /\ ret = <<>>
    /\ \E s \in {NewSession, UsedSession} : \E recs \in SeqsUpTo(EnvRecs, MaxRecs) :
          call = [fn |-> "processEnvChg", sess |-> s, recs |-> recs]

\* processEnvChg runs on the session the call names, then once more on the
\* session it left
CallEnvChg ==
    /\ call.fn = "processEnvChg"
    /\ Len(ret) < 2
    /\ ret' = Append(ret, processEnvChg(IF ret = <<>> THEN call.sess ELSE Last(ret).sess,
                                        call.recs))
    /\ Still

EnvChgSpec == EnvChgInit /\ [][CallEnvChg]_vars

(* ---- processEnvChg: the bytes it reads ---- *)
\* the declared size of an ENVCHANGE, the bytes of one sub-record
MaxEnvSize == 4
MaxRecBytes == 3

\* The reads of processEnvChg go through a LimitedReader of size bytes.
\* left is what the LimitedReader still allows; stream holds the
\* sub-records the buffer has next, each with the number of bytes of its
\* encoding, the type byte included; used counts the bytes read. At the
\* type byte a LimitedReader with nothing left gives io.EOF, and the
\* function returns; a case whose reads want more than is left gets an
\* error from its read; a type the switch does not know returns at once.
RECURSIVE EnvChgRead(_, _, _)
EnvChgRead(left, stream, used) ==
    IF left = 0 THEN [out |-> "eof", used |-> used]
    ELSE LET r == Head(stream)
             e == EnvRecord(NewSession, r.rec)
         IN  IF e.out = "unknown" THEN [out |-> "unknown", used |-> used + 1]
             ELSE IF r.bytes - 1 > left - 1
             THEN [out |-> "badstream", used |-> used + left]
             ELSE IF e.out = "badstream"
             THEN [out |-> "badstream", used |-> used + r.bytes]
             ELSE EnvChgRead(left - r.bytes, Tail(stream), used + r.bytes)

\* processEnvChg on a record of the declared size: the two bytes of the
\* size, then the sub-records
EnvChgConsumed(size, stream) ==
    LET res == EnvChgRead(size, stream, 0) IN
    [out |-> res.out, consumed |-> 2 + res.used]

RECURSIVE StreamBytes(_)
StreamBytes(stream) ==
    IF stream = <<>> THEN 0 ELSE Head(stream).bytes + StreamBytes(Tail(stream))

\* the sub-records the buffer may hold
StreamRecs ==
    [rec : {EnvRec(envTypDatabase, 1, 0, 0, 0, ""), EnvRec(envRouting, 1, 0, 1, 0, ""),
            EnvRec(envTypBeginTran, 1, 7, 0, 0, ""), EnvRec(14, 0, 0, 0, 0, "")},
     bytes : 1..MaxRecBytes]

\* the buffer holds at least the bytes the size declares
EnvBytesInit ==
    /\ Machine({})
    /\ ret = <<>>
    /\ \E size \in 0..MaxEnvSize : \E stream \in SeqsUpTo(StreamRecs, MaxRecs) :
          /\ StreamBytes(stream) >= size
          /\ call = [fn |-> "envbytes", size |-> size, stream |-> stream]

CallEnvBytes ==
    /\ call.fn = "envbytes"
    /\ ret = <<>>
    /\ ret' = <<EnvChgConsumed(call.size, call.stream)>>
    /\ Still

EnvBytesSpec == EnvBytesInit /\ [][CallEnvBytes]_vars

(* ---- parseFedAuthInfo ---- *)
\* an unsigned 32-bit integer as its two 16-bit halves
U32(hi, lo) == [hi |-> hi, lo |-> lo]

Add32(a, b) ==
    U32((a.hi + b.hi + ((a.lo + b.lo) \div 65536)) % 65536, (a.lo + b.lo) % 65536)

Sub32(a, b) ==
    U32((a.hi - b.hi - (IF a.lo < b.lo THEN 1 ELSE 0) + 65536) % 65536,
        (a.lo - b.lo + 65536) % 65536)

Lt32(a, b) == a.hi < b.hi \/ (a.hi = b.hi /\ a.lo < b.lo)

fedAuthInfoSTSURL == 1
fedAuthInfoSPN == 2

\* the loop over the options, the blob having been read: "ok" all slices
\* were taken and decoded, "badstream" a check or an id failed, "outofrange"
\* a slice expression was evaluated with bounds outside the blob
RECURSIVE FedAuthOpts(_, _, _, _)
FedAuthOpts(size, offset, blob, opts) ==
    IF opts = <<>> THEN "ok"
    ELSE LET o == Head(opts)
             from == Sub32(o.dataOffset, offset)
             to == Add32(Sub32(o.dataOffset, offset), o.dataLength)
         IN  IF Lt32(o.dataOffset, offset) THEN "badstream"
             ELSE IF Lt32(size, Add32(o.dataOffset, o.dataLength)) THEN "badstream"
             ELSE IF Lt32(to, from) \/ Lt32(blob, to) THEN "outofrange"
             ELSE IF o.fedAuthInfoID \notin {fedAuthInfoSTSURL, fedAuthInfoSPN}
             THEN "badstream"
             ELSE FedAuthOpts(size, offset, blob, Tail(opts))

\* parseFedAuthInfo: made is the length of the blob it allocates, size-offset
\* in 32 bits; wrapped says that size was less than offset
parseFedAuthInfo(size, opts) ==
    LET offset == U32(0, 4 + 9 * Len(opts))
        blob == Sub32(size, offset)
    IN  [out |-> FedAuthOpts(size, offset, blob, opts),
         offset |-> offset,
         made |-> blob,
         wrapped |-> Lt32(size, offset)]

FedAuthSizes == {U32(0, 0), U32(0, 4), U32(0, 13), U32(0, 16), U32(0, 20), U32(65535, 65535)}

FedAuthOptions ==
    [fedAuthInfoID : 1..3,
     dataLength : {U32(0, 0), U32(0, 2), U32(0, 4), U32(65535, 65535)},
     dataOffset : {U32(0, 0), U32(0, 13), U32(0, 15), U32(0, 18), U32(65535, 65535)}]

FedAuthInit ==
    /\ Machine({})
    /\ ret = <<>>
    /\ \E size \in FedAuthSizes : \E opts \in SeqsUpTo(FedAuthOptions, MaxOpts) :
          call = [fn |-> "parseFedAuthInfo", size |-> size, opts |-> opts]

CallFedAuthInfo ==
    /\ call.fn = "parseFedAuthInfo"
    /\ ret = <<>>
    /\ ret' = <<parseFedAuthInfo(call.size, call.opts)>>
    /\ Still

FedAuthSpec == FedAuthInit /\ [][CallFedAuthInfo]_vars

(* ---- parseColMetadata72, readCEKTable, parseCryptoMetadata ---- *)
\* readCEKTable: no table when the size is 0, else the entries 1..tableSize
readCEKTable(tableSize) ==
    IF tableSize = 0 THEN [present |-> FALSE, entries |-> <<>>]
    ELSE [present |-> TRUE, entries |-> [k \in 1..tableSize |-> k]]

\* parseCryptoMetadata: the ordinal is read only when there is a table;
\* entry 0 is the nil entry, entry k the table's entry of ordinal k-1
parseCryptoMetadata(ord, cekTable) ==
    LET ordinal == IF cekTable.present THEN ord ELSE 0 IN
    IF cekTable.present /\ ordinal > Len(cekTable.entries) - 1
    THEN [out |-> "panicerror", entry |-> 0, ordinal |-> ordinal]
    ELSE [out |-> "ok",
          entry |-> IF cekTable.present THEN cekTable.entries[ordinal + 1] ELSE 0,
          ordinal |-> ordinal]

NoCryptoMeta == [out |-> "ok", entry |-> 0, ordinal |-> 0]

\* the loop over the columns: done are the columns made so far
RECURSIVE ColumnLoop(_, _, _, _)
ColumnLoop(ae, cekTable, cols, done) ==
    IF cols = <<>> THEN [out |-> "ok", columns |-> done]
    ELSE LET c == Head(cols)
             attach == c.encrypted /\ ae
             m == IF attach THEN parseCryptoMetadata(c.ord, cekTable) ELSE NoCryptoMeta
         IN  IF m.out # "ok" THEN [out |-> m.out, columns |-> <<>>]
             ELSE ColumnLoop(ae, cekTable, Tail(cols),
                             Append(done, [encrypted |-> c.encrypted,
                                           cryptoMeta |-> attach,
                                           entry |-> m.entry,
                                           ordinal |-> m.ordinal]))

\* parseColMetadata72 of a COLMETADATA with a column count other than 0xffff
parseColMetadata72(c) ==
    IF ~c.ae THEN ColumnLoop(FALSE, readCEKTable(0), c.cols, <<>>)
    ELSE IF c.settings = "nil" THEN [out |-> "panicstring", columns |-> <<>>]
    ELSE IF c.pKey = 0 /\ c.settings # "pfx" THEN [out |-> "panicstring", columns |-> <<>>]
    ELSE ColumnLoop(TRUE, readCEKTable(c.tableSize), c.cols, <<>>)

ColMetadataInit ==
    /\ Machine({})
    /\ ret = <<>>
    /\ \E ae \in BOOLEAN : \E settings \in {"nil", "pfx", "other"} : \E pk \in 0..1 :
       \E n \in 0..MaxCek :
       \E cols \in SeqsUpTo([encrypted : BOOLEAN, ord : 0..(MaxCek + 1)], MaxCols) :
          call = [fn |-> "parseColMetadata72", ae |-> ae, settings |-> settings,
                  pKey |-> pk, tableSize |-> n, cols |-> cols]

CallColMetadata ==
    /\ call.fn = "parseColMetadata72"
    /\ ret = <<>>
    /\ ret' = <<parseColMetadata72(call)>>
    /\ Still

ColMetadataSpec == ColMetadataInit /\ [][CallColMetadata]_vars

(* ---- parseRow, parseNbcRow, decryptColumn ---- *)
\* columns of a row, CEK values of a CEK table entry
MaxRowCols == 1
MaxCekValues == 2

\* a cell of a row: null, the bytes the column's reader returned, the value
\* read from the decrypted bytes with the algorithm version ver and the
\* encrypted key key
Cell(kind, ver, key) == [kind |-> kind, ver |-> ver, key |-> key]

NullCell == Cell("null", 0, 0)

RawCell == Cell("raw", 0, 0)

\* the CEK values of an entry: value k has the key k and the version 10 + k
CekValues(n) == [k \in 1..n |-> [encryptedKey |-> k, cekVersion |-> 10 + k]]

\* decryptColumn. The column has entry (present FALSE: nil) and ordinal;
\* indexed are the positions of entry.cekValues the code indexes. A nil
\* entry, an index past the CEK values, a certificate or key that does not
\* serve, and bytes that do not decrypt end in a panic with an error; so
\* does the type assertion columnContent.([]byte) on a nil content.
decryptColumn(column, s, content) ==
    LET vals == column.entry.cekValues IN
    IF ~column.entry.present
    THEN [out |-> "panicerror", indexed |-> {}, cell |-> NullCell]
    ELSE IF column.ordinal >= Len(vals)
    THEN [out |-> "panicerror", indexed |-> {column.ordinal}, cell |-> NullCell]
    ELSE IF s.pKey = 0
    THEN [out |-> "panicstring", indexed |-> {column.ordinal}, cell |-> NullCell]
    ELSE IF content.kind = "null" \/ content.crypt # "ok"
    THEN [out |-> "panicerror", indexed |-> {column.ordinal, 0}, cell |-> NullCell]
    ELSE [out |-> "ok", indexed |-> {column.ordinal, 0},
          cell |-> Cell("plain", vals[column.ordinal + 1].cekVersion,
                        vals[1].encryptedKey)]

\* what the wire holds for a cell, as the column's reader returns it
WireCell(content) == IF content.kind = "null" THEN NullCell ELSE RawCell

\* the result of a row decoder: the cells made before it returned or
\* panicked, the number of cells read from the wire, the positions of CEK
\* values indexed
RowRes(out, row, reads, indexed) ==
    [out |-> out, row |-> row, reads |-> reads, indexed |-> indexed]

\* parseRow: the loop over the columns; contents[k] is what the wire holds
\* for column k
RECURSIVE parseRow(_, _, _, _)
parseRow(s, cols, contents, acc) ==
    IF cols = <<>> THEN acc
    ELSE LET column == Head(cols)
             content == Head(contents)
             read == RowRes(acc.out, acc.row, acc.reads + 1, acc.indexed)
         IN  IF content.kind = "null"
             THEN parseRow(s, Tail(cols), Tail(contents),
                           RowRes("ok", Append(acc.row, NullCell), read.reads, acc.indexed))
             ELSE IF column.encrypted /\ s.ae
             THEN LET d == decryptColumn(column, s, content) IN
                  IF d.out # "ok"
                  THEN RowRes(d.out, acc.row, read.reads, acc.indexed \cup d.indexed)
                  ELSE parseRow(s, Tail(cols), Tail(contents),
                                RowRes("ok", Append(acc.row, d.cell), read.reads,
                                       acc.indexed \cup d.indexed))
             ELSE parseRow(s, Tail(cols), Tail(contents),
                           RowRes("ok", Append(acc.row, WireCell(content)), read.reads,
                                  acc.indexed))

\* parseNbcRow: pres[k] is the bit of column k in the null bitmap; the wire
\* holds contents only for the cols whose bit is clear
RECURSIVE parseNbcRow(_, _, _, _, _)
parseNbcRow(s, cols, pres, contents, acc) ==
    IF cols = <<>> THEN acc
    ELSE LET col == Head(cols) IN
         IF Head(pres)
         THEN parseNbcRow(s, Tail(cols), Tail(pres), contents,
                          RowRes("ok", Append(acc.row, NullCell), acc.reads, acc.indexed))
         ELSE LET content == Head(contents)
                  reads == acc.reads + 1
              IN  IF col.encrypted /\ s.ae
                  THEN LET d == decryptColumn(col, s, content) IN
                       IF d.out # "ok"
                       THEN RowRes(d.out, acc.row, reads, acc.indexed \cup d.indexed)
                       ELSE parseNbcRow(s, Tail(cols), Tail(pres), Tail(contents),
                                        RowRes("ok", Append(acc.row, d.cell), reads,
                                               acc.indexed \cup d.indexed))
                  ELSE parseNbcRow(s, Tail(cols), Tail(pres), Tail(contents),
                                   RowRes("ok", Append(acc.row, WireCell(content)), reads,
                                          acc.indexed))

NoRow == RowRes("ok", <<>>, 0, {})

\* the columns, as parseColMetadata72 and a caller may leave them
RowColumns ==
    [encrypted : BOOLEAN, ordinal : 0..1,
     entry : [present : BOOLEAN, cekValues : {CekValues(n) : n \in 0..MaxCekValues}]]

RowContents == [kind : {"null", "bytes"}, crypt : {"ok", "fail"}]

\* the positions of pres whose bit is clear
RECURSIVE ClearBits(_, _)
ClearBits(pres, k) ==
    IF k > Len(pres) THEN <<>>
    ELSE (IF pres[k] THEN <<>> ELSE <<k>>) \o ClearBits(pres, k + 1)

RowInit ==
    /\ Machine({})
    /\ ret = <<>>
    /\ \E ae \in BOOLEAN : \E pk \in 0..1 : \E n \in 1..MaxRowCols :
       \E cols \in [1..n -> RowColumns] : \E pres \in [1..n -> BOOLEAN] :
       \E contents \in [1..n -> RowContents] :
          call = [fn |-> "rows", ae |-> ae, pKey |-> pk, columns |-> cols,
                  pres |-> pres, contents |-> contents]

\* the NBCROW: the wire holds the cells of the columns whose bit is clear
CallParseNbcRow ==
    /\ call.fn = "rows"
    /\ ret = <<>>
    /\ LET clear == ClearBits(call.pres, 1) IN
       ret' = <<parseNbcRow(call, call.columns, call.pres,
                            [k \in 1..Len(clear) |-> call.contents[clear[k]]], NoRow)>>
    /\ Still

\* the ROW of the same cell bytes: the columns whose bit is clear, with the
\* same contents
CallParseRow ==
    /\ call.fn = "rows"
    /\ Len(ret) = 1
    /\ LET clear == ClearBits(call.pres, 1) IN
       ret' = Append(ret, parseRow(call, [k \in 1..Len(clear) |-> call.columns[clear[k]]],
                                   [k \in 1..Len(clear) |-> call.contents[clear[k]]], NoRow))
    /\ Still

RowSpec == RowInit /\ [][CallParseNbcRow \/ CallParseRow]_vars

TypeOK ==
    /\ pool \in Pools \cup {PoolSess, PoolDrain, PoolRoute, PoolScan, {}}
    /\ cpc \in {"poll", "wait", "drain", "returned"}
    /\ \A i \in Readers : rpc[i] \in {"idle", "begin", "loop", "send", "return", "done"}
    /\ \A i \in Readers : Len(chan[i]) <= QueueCap
    /\ result \in {"none", "normal", "chanError", "attentionError", "ctxError",
                   "noConfirmation"}


(* ------------------------------------------------------------------ *)
(* properties                                                          *)
(* ------------------------------------------------------------------ *)
Returned == cpc = "returned"

\* nextToken took the ctx.Done() case of its second select
CancelTaken == attnSent > 0 \/ result = "attentionError"

ReadersStarted == Cardinality({i \in Readers : rpc[i] # "idle"})

DoneWithAttn(v) == v.kind = "Done" /\ HasBit(v.status, doneAttn)

DoneWithMore(v) == v.kind = "Done" /\ HasBit(v.status, doneMore)

DoneFinalValue(v) == v.kind = "Done" /\ ~HasBit(v.status, doneMore)

\* C1, as stated: whenever the context was cancelled while iterateResponse
\* was running, iterateResponse does not return as a normal completion (nil
\* or the aggregated first-error).
C1_NeverCompletesOnceCancelled ==
    (Returned /\ ctxDone) => result # "normal"

\* C1, amended: once nextToken has observed the cancellation at its blocking
\* wait (it took the ctx.Done() case), iterateResponse never returns a normal
\* completion nor a queued error: its result is the context cancellation
\* error, the fatal 'did not get cancellation confirmation' error, or the
\* error of sendAttention; and these results arise in no other way.
C1_CancelTakenNeverCompletes ==
    Returned =>
        /\ CancelTaken => result \in {"ctxError", "noConfirmation", "attentionError"}
        /\ attnSent > 0 => result \in {"ctxError", "noConfirmation"}
        /\ result \in {"ctxError", "noConfirmation", "attentionError"} => ctxDone

\* the drain of both responses ended without a confirmation
C1_Witness == Returned /\ attnSent > 0 /\ result = "noConfirmation" /\ closed[2]

\* C2: once the context is cancelled at the consumer's wait point, nextToken
\* eventually returns (a token, or the end of iterateResponse), and at most
\* two reader tasks are ever started.
C2_CancelledWaitReturns ==
    /\ [](ReadersStarted <= 2)
    /\ [](\A i \in Readers : rpc[i] # "idle" => i <= cur)
    /\ (cpc = "wait" /\ ctxDone) ~> (cpc \in {"poll", "returned"})
    /\ (cpc = "drain") ~> Returned

\* the drain went through a second reader task and nextToken returned
C2_Witness == Returned /\ attnSent > 0 /\ ReadersStarted = 2 /\ rpc[2] = "done"

\* C3: a call of nextToken that finds a value in the queue returns that
\* value, cancelled context or not, and sends no attention packet.
C3_QueuedValueFirst ==
    [][(cpc = "poll" /\ chan[cur] # <<>> /\ (cpc' # cpc \/ delivered' # delivered))
        => /\ delivered' = Append(delivered, Head(chan[cur]))
           /\ chan'[cur] = Tail(chan[cur])
           /\ attnSent' = attnSent
           /\ cpc' \in {"poll", "returned"}
           /\ result' \in {"none", "chanError"}
           /\ (result' = "chanError") = (Head(chan[cur]).kind = "Err"
                                         /\ Head(chan[cur]).msg # "panic string")]_vars

\* a queued value was returned with the context already cancelled
C3_Witness == polledCancelled /\ ctxDone /\ attnSent = 0 /\ delivered # <<>>

\* C4: the context cancellation error is returned only after one attention
\* packet was sent and then a Done with ATTN was dequeued, from the current
\* response or from the one next response; when both responses ended without
\* one, the result is the fatal error.
C4_ConfirmationBeforeCtxError ==
    /\ attnSent <= 1
    /\ \A i \in Readers : drained[i] # <<>> => attnSent = 1
    /\ \A i \in Readers : \A k \in 1..Len(drained[i]) :
          DoneWithAttn(drained[i][k]) => (k = Len(drained[i]) /\ i = cur
                                          /\ result = "ctxError")
    /\ result = "ctxError" =>
          /\ attnSent = 1
          /\ drained[cur] # <<>>
          /\ DoneWithAttn(Last(drained[cur]))
          /\ \E k \in 1..Len(emitted[cur]) : emitted[cur][k] = Last(drained[cur])
    /\ result = "noConfirmation" =>
          /\ attnSent = 1
          /\ cur = 2
          /\ closed[1] /\ closed[2]
          /\ chan[1] = <<>> /\ chan[2] = <<>>
    /\ (Returned /\ attnSent = 1
            /\ \A i \in Readers : \A k \in 1..Len(drained[i]) :
                   ~DoneWithAttn(drained[i][k]))
          => result = "noConfirmation"

\* the confirmation came in the next response
C4_Witness == result = "ctxError" /\ cur = 2 /\ Len(drained[2]) >= 2


\* the token tags a value of each kind is parsed from
TagsOf(kind) ==
    CASE kind = "Done" -> {tokenDone, tokenDoneProc}
      [] kind = "DoneInProc" -> {tokenDoneInProc}
      [] kind = "Columns" -> {tokenColMetadata}
      [] kind = "Row" -> {tokenRow, tokenNbcRow}
      [] kind = "Order" -> {tokenOrder}
      [] kind = "ReturnStatus" -> {tokenReturnStatus}
      [] kind = "LoginAck" -> {tokenLoginAck}
      [] kind = "FeatureExtAck" -> {tokenFeatureExtAck}
      [] kind = "SspiMsg" -> {tokenSSPI}
      [] kind = "FedAuthInfo" -> {tokenFedAuthInfo}
      [] OTHER -> {}

\* C5: what nextToken hands to the consumer is a prefix of what the reader
\* sent, in the same order (nothing lost, doubled or reordered in the
\* channel), and the reader sends its values in the order of their tags on
\* the wire.
C5_WireOrderDelivery ==
    /\ IsPrefix(delivered, emitted[1])
    /\ emitted[1] = delivered \o drained[1] \o chan[1]
    /\ emitted[2] = drained[2] \o chan[2]
    /\ \A i \in Readers : \A k, l \in 1..Len(emitted[i]) :
          k < l => emitted[i][k].idx < emitted[i][l].idx
    /\ \A i \in Readers : \A k \in 1..Len(emitted[i]) :
          LET v == emitted[i][k] IN
          /\ v.idx \in 0..(Len(wire[i]) + 1)
          /\ v.kind # "Err" => /\ v.idx \in 1..Len(wire[i])
                               /\ wire[i][v.idx].tag \in TagsOf(v.kind)

\* two values of different kinds were delivered in order, a third is queued
C5_Witness ==
    /\ Len(delivered) >= 2
    /\ Len(chan[1]) >= 1
    /\ delivered[1].kind # delivered[2].kind

\* C6: a Done with MORE clear is the last value the reader sends for its
\* response and the reader goes on to close the channel; after a Done with
\* MORE set the reader is still reading the response.
C6_FinalDoneEndsResponse ==
    \A i \in Readers :
       /\ rpc[i] = "done" => closed[i]
       /\ \A k \in 1..Len(emitted[i]) :
             /\ DoneFinalValue(emitted[i][k]) =>
                   (k = Len(emitted[i]) /\ rpc[i] \in {"return", "done"})
             /\ (DoneWithMore(emitted[i][k]) /\ k = Len(emitted[i])) =>
                   (rpc[i] \in {"loop", "send"} /\ ~closed[i])

\* a response went on after a Done with MORE and was ended by a final Done
C6_Witness ==
    \E i \in Readers :
       /\ closed[i]
       /\ Len(emitted[i]) >= 2
       /\ DoneWithMore(emitted[i][1])
       /\ DoneFinalValue(Last(emitted[i]))

C8_RowOnlyAfterColumns ==
    \A i \in Readers : \A k \in 1..Len(emitted[i]) :
       emitted[i][k].kind = "Row" =>
          \E j \in 1..(k - 1) : emitted[i][j].kind = "Columns"

IsErrorToken(t) == t.tag = tokenError /\ t.dec = "ok"

\* the ERROR tokens among the first k-1 tokens of w, as Error values
ErrorsBefore(w, k) ==
    LET es == SelectSeq(SubSeq(w, 1, k - 1), IsErrorToken)
    IN  [j \in 1..Len(es) |-> [Number |-> es[j].arg, Message |-> "server"]]

\* C9: the Done of the terminating DONE/DONEPROC carries exactly the ERROR
\* tokens parsed since the start of its response, in wire order; no value on
\* the channel is parsed from an ERROR or an INFO token.
C9_TerminalDoneCarriesErrors ==
    \A i \in Readers : \A k \in 1..Len(emitted[i]) :
       LET v == emitted[i][k] IN
       /\ DoneFinalValue(v) => v.errors = ErrorsBefore(wire[i], v.idx)
       /\ v.idx \in 1..Len(wire[i]) => wire[i][v.idx].tag \notin {tokenError, tokenInfo}

\* a terminating Done with two different errors attached
C9_Witness ==
    \E i \in Readers :
       /\ closed[i]
       /\ emitted[i] # <<>>
       /\ DoneFinalValue(Last(emitted[i]))
       /\ Len(Last(emitted[i]).errors) = 2
       /\ Last(emitted[i]).errors[1] # Last(emitted[i]).errors[2]

\* the delivered Done tokens that are in error
ErrDones ==
    {k \in 1..Len(delivered) :
        /\ delivered[k].kind = "Done"
        /\ (HasBit(delivered[k].status, doneError) \/ delivered[k].errors # <<>>)}

ErrorOf(d) == IF d.errors # <<>> THEN Last(d.errors) ELSE NoReason

\* C10: first-error is nil until a Done in error is delivered, and from then
\* on it is the error of the earliest such Done; a normal termination (the
\* queue closed, no error value taken from it) returns first-error.
C10_FirstErrorIsEarliest ==
    /\ ErrDones = {} => firstError = <<>>
    /\ ErrDones # {} =>
          LET first == CHOOSE k \in ErrDones : \A l \in ErrDones : k <= l
          IN  firstError = <<ErrorOf(delivered[first])>>
    /\ result = "normal" =>
          /\ closed[1] /\ chan[1] = <<>>
          /\ \A k \in 1..Len(delivered) : ~IsGoError(delivered[k])

\* a normal termination after two Dones in error with different errors
C10_Witness ==
    /\ result = "normal"
    /\ \E k, l \in ErrDones :
          k < l /\ ErrorOf(delivered[k]) # ErrorOf(delivered[l])

(* ------------------------------------------------------------------ *)
(* SRVERROR, parse aborts                                              *)
(* ------------------------------------------------------------------ *)
IsSrvErrorToken(t) ==
    t.tag \in {tokenDone, tokenDoneProc} /\ t.dec = "ok" /\ HasBit(t.arg, doneSrvError)

SrvErrorValue(v) == v.kind = "Err" /\ v.msg = "SQL Server had internal error"

\* C11: a DONE or DONEPROC with SRVERROR is the last token the reader reads
\* of its response, MORE set or not; the only value made from it is the error
\* 'SQL Server had internal error', which is the last value of the response;
\* when nextToken returns that value iterateResponse returns it as its error,
\* and a response with such a token never ends as a normal completion.
C11_SrvErrorEndsResponse ==
    /\ \A i \in Readers : \A k \in 1..Len(wire[i]) :
          IsSrvErrorToken(wire[i][k]) =>
             /\ k = Len(wire[i])
             /\ rpc[i] \in {"send", "return", "done"}
             /\ \A n \in 1..Len(emitted[i]) :
                   emitted[i][n].idx = k =>
                      (SrvErrorValue(emitted[i][n]) /\ n = Len(emitted[i]))
             /\ rpc[i] = "send" =>
                   /\ SrvErrorValue(pend[i][1].val)
                   /\ pend[i][1].val.idx = k
                   /\ pend[i][1].after = "return"
             /\ rpc[i] \in {"return", "done"} =>
                   /\ emitted[i] # <<>>
                   /\ SrvErrorValue(Last(emitted[i]))
                   /\ Last(emitted[i]).idx = k
    /\ \A n \in 1..Len(delivered) :
          SrvErrorValue(delivered[n]) =>
             (n = Len(delivered) /\ Returned /\ result = "chanError")
    /\ result = "normal" =>
          \A k \in 1..Len(wire[1]) : ~IsSrvErrorToken(wire[1][k])

\* first-error was set by an earlier Done of the response, and the result is
\* the internal error of a DONEPROC with SRVERROR and MORE
C11_Witness ==
    /\ result = "chanError"
    /\ firstError # <<>>
    /\ SrvErrorValue(Last(delivered))
    /\ HasBit(Last(wire[1]).arg, doneMore)
    /\ closed[1]

\* the value the deferred recover sends after a panic of the reader
AbortValue(v) == v.kind = "Err" /\ v.msg \in {"bad stream", "panic string"}

\* reader i ended its response in a parse abort
Aborted(i) == closed[i] /\ emitted[i] # <<>> /\ AbortValue(Last(emitted[i]))

\* C12, as stated: a parse abort of the reader puts exactly one error value
\* on the queue, as the last value before the close, and iterateResponse then
\* returns a non-nil error, never a normal completion of that response.
C12_AbortReturnsError ==
    /\ \A i \in Readers :
          Aborted(i) =>
             \A n \in 1..(Len(emitted[i]) - 1) : ~AbortValue(emitted[i][n])
    /\ (Aborted(1) /\ Returned) => result # "normal"

(* ------------------------------------------------------------------ *)
(* ownership of the packet reader                                      *)
(* ------------------------------------------------------------------ *)
\* reader task i has been started and has not yet closed its channel
Running(i) == rpc[i] \in {"begin", "loop", "send", "return"}

\* C13: at most one reader task runs at any moment; the second reader task
\* is started only during the cancellation drain, after the first has closed
\* its channel, and never when the confirmation was found in the first
\* response.
C13_OneReaderAtATime ==
    /\ Cardinality({i \in Readers : Running(i)}) <= 1
    /\ rpc[2] # "idle" =>
          /\ rpc[1] = "done"
          /\ closed[1]
          /\ chan[1] = <<>>
          /\ cur = 2
          /\ attnSent = 1
          /\ \A k \in 1..Len(drained[1]) : ~DoneWithAttn(drained[1][k])
    /\ (\E k \in 1..Len(drained[1]) : DoneWithAttn(drained[1][k])) =>
          (rpc[2] = "idle" /\ cur = 1 /\ result = "ctxError")

\* the second reader task is reading its response
C13_Witness == rpc[2] = "loop" /\ Len(wire[2]) >= 1 /\ Len(drained[1]) >= 1

(* ------------------------------------------------------------------ *)
(* aggregation and the cancellation drain                              *)
(* ------------------------------------------------------------------ *)
\* idx of the last value of the kind in s, 0 when there is none
RECURSIVE LastIdxOf(_, _)
LastIdxOf(kind, s) ==
    IF s = <<>> THEN 0
    ELSE IF Last(s).kind = kind THEN Last(s).idx
    ELSE LastIdxOf(kind, SubSeq(s, 1, Len(s) - 1))

\* the delivered Done and DoneInProc with the COUNT bit
Counted(s) ==
    Cardinality({k \in 1..Len(s) : /\ s[k].kind \in {"Done", "DoneInProc"}
                                   /\ HasBit(s[k].status, doneCount)})

\* C20: lastRow, the row count, first-error and the session's current
\* columns are those of the values nextToken returned to iterateResponse;
\* the values taken by the drain for the cancellation confirmation change
\* none of them, so that when the context error is returned lastRow is still
\* the last Row delivered before the cancellation.
C20_DrainKeepsAggregates ==
    /\ lastRow = LastIdxOf("Row", delivered)
    /\ sessColumns = LastIdxOf("Columns", delivered)
    /\ returnStatus = LastIdxOf("ReturnStatus", delivered)
    /\ rowCount = Counted(delivered)
    /\ (firstError = <<>>) = (ErrDones = {})
    /\ result \in {"ctxError", "noConfirmation", "attentionError"} =>
          (delivered = <<>> \/ ~IsGoError(Last(delivered)))

\* a Row was delivered, the cancellation was taken, a later Row went by in
\* the drain, and the context error is returned with the first Row as lastRow
C20_Witness ==
    /\ result = "ctxError"
    /\ lastRow = 1
    /\ \E k \in 1..Len(drained[1]) : drained[1][k].kind = "Row"

(* ------------------------------------------------------------------ *)
(* the session's fields                                                *)
(* ------------------------------------------------------------------ *)
SessionFields ==
    {"database", "tranid", "partner", "routedServer", "routedPort", "packetSize",
     "pKey", "columns"}

\* C14, as stated: every write to the session's fields (database, tranid,
\* partner, routedServer, routedPort, packet size, private key, current
\* columns) is made by a reader task; the consumer writes none of them.
C14_OnlyReaderWrites ==
    \A w \in writers : w[1] \in SessionFields => w[2] = "reader"

\* C14, amended: database, tranid, partner, routedServer, routedPort, the
\* packet size and the private key are written only by a reader task, and at
\* most one reader task runs at a time; the session's current columns (and
\* its return status) are written only by the consumer, in iterateResponse,
\* and never by a reader task: each field has one writing task.
C14_OneWriterPerField ==
    /\ \A w \in writers :
          IF w[1] \in {"columns", "returnStatus"}
          THEN w[2] = "consumer"
          ELSE w[2] = "reader"
    /\ \A w \in writers : w[1] \in SessionFields \cup {"returnStatus"}
    /\ Cardinality({i \in Readers : Running(i)}) <= 1
    /\ (<<"columns", "consumer">> \in writers) = (sessColumns # 0)
    /\ sess # NewSession => \E w \in writers : w[2] = "reader"

\* the reader has written the database and the private key and the consumer
\* the current columns, the reader still running
C14_Witness ==
    /\ {<<"database", "reader">>, <<"pKey", "reader">>, <<"columns", "consumer">>}
          \subseteq writers
    /\ Running(1)

\* the session after the reader has parsed the tokens of w, one after the
\* other, starting from s
RECURSIVE EnvApplied(_, _)
EnvApplied(s, w) ==
    IF w = <<>> THEN s
    ELSE EnvApplied(IF Head(w).tag = tokenEnvChange /\ Head(w).dec = "ok"
                    THEN processEnvChg(s, Head(w).arg).sess
                    ELSE s,
                    Tail(w))

\* the fields an ENVCHANGE sets
EnvFields(s) == [s EXCEPT !.pKey = 0]

\* C15: whenever a value is pending or queued, and at every other moment,
\* the session's database, tranid, partner, routedServer, routedPort and
\* packet size are those left by all the ENVCHANGE tokens the readers have
\* read so far, in wire order: the effects of an ENVCHANGE are in place
\* before any value parsed from a later token is put on the queue.
C15_EnvChangeBeforeLaterToken ==
    /\ EnvFields(sess) = EnvFields(EnvApplied(NewSession, wire[1] \o wire[2]))
    /\ \A i \in Readers : \A k \in 1..Len(emitted[i]) :
          emitted[i][k].idx <= Len(wire[i]) + 1
    /\ \A i \in Readers :
          rpc[i] = "send" =>
             pend[i][1].val.idx \in {0, Len(wire[i]), Len(wire[i]) + 1}

\* a Row is queued behind two ENVCHANGEs that set the database and the
\* tranid, and the session has both
C15_Witness ==
    /\ Len(wire[1]) = 3
    /\ wire[1][1].tag = tokenEnvChange
    /\ wire[1][2].tag = tokenEnvChange
    /\ chan[1] # <<>>
    /\ Head(chan[1]).idx = 3
    /\ sess.database = 1
    /\ sess.tranid = 1
    /\ sess.routedPort = 1

(* ------------------------------------------------------------------ *)
(* ENVCHANGE on its own                                                *)
(* ------------------------------------------------------------------ *)
\* the sub-record is one the switch knows and none of its reads fails
WellFormedRec(r) ==
    /\ r.err = ""
    /\ r.typ \in envIgnored \cup {envTypDatabase, envTypPacketSize, envSqlCollation,
                                  envTypBeginTran, envTypCommitTran, envTypRollbackTran,
                                  envDatabaseMirrorPartner, envRouting}
    /\ r.typ = envTypBeginTran => r.len = 8
    /\ r.typ = envSqlCollation => r.len = 5
    /\ r.typ = envRouting => r.proto = 0

WellFormedRecs(recs) == \A k \in 1..Len(recs) : WellFormedRec(recs[k])

EnvChgCalled == call.fn = "processEnvChg" /\ ret # <<>>

\* C16: applying a sequence of ENVCHANGE sub-records a second time leaves the
\* session as the first application left it, for every starting session and
\* every sequence, well-formed or not; a well-formed sequence is applied to
\* its end both times.
C16_EnvChgIdempotent ==
    (call.fn = "processEnvChg" /\ Len(ret) = 2) =>
        /\ ret[2].sess = ret[1].sess
        /\ ret[2].out = ret[1].out
        /\ WellFormedRecs(call.recs) => ret[1].out = "eof"

\* a well-formed sequence of two sub-records changed the session, and was
\* applied twice
C16_Witness ==
    /\ call.fn = "processEnvChg"
    /\ Len(ret) = 2
    /\ Len(call.recs) = 2
    /\ WellFormedRecs(call.recs)
    /\ call.sess = UsedSession
    /\ ret[1].sess.tranid \notin {0, 2}
    /\ ret[1].sess.routedPort = 1

\* the sub-record ends processEnvChg: a read fails, a length or the routing
\* protocol is not the expected one, or the type is unknown
Stops(r) == ~WellFormedRec(r)

\* the first sub-record of recs that ends processEnvChg, Len(recs)+1 if none
StopAt(recs) ==
    IF \E k \in 1..Len(recs) : Stops(recs[k])
    THEN CHOOSE k \in 1..Len(recs) :
            Stops(recs[k]) /\ \A j \in 1..(k - 1) : ~Stops(recs[j])
    ELSE Len(recs) + 1

\* the sub-records of recs that assign session.tranid: the transaction
\* sub-records before the one that ends processEnvChg, and that one if it is
\* a BeginTran of 8 bytes one of whose reads returned an error
TranAssigns(recs) ==
    {k \in 1..Len(recs) :
        \/ /\ k < StopAt(recs)
           /\ recs[k].typ \in {envTypBeginTran, envTypCommitTran, envTypRollbackTran}
        \/ /\ k = StopAt(recs)
           /\ recs[k].typ = envTypBeginTran
           /\ recs[k].len = 8}

\* C17: after a sequence of sub-records session.tranid is the 8-byte value
\* of the most recent BeginTran if no CommitTran or RollbackTran followed
\* it, 0 if a CommitTran or RollbackTran was the most recent transaction
\* sub-record, and what it was if there was none; a BeginTran whose value is
\* not 8 bytes long raises BadStream and leaves session.tranid as the
\* sub-records before it left it.
C17_TranidFollowsLastTran ==
    EnvChgCalled =>
        LET recs == call.recs
            stop == StopAt(recs)
            as == TranAssigns(recs)
            last == CHOOSE k \in as : \A j \in as : j <= k
        IN  /\ as = {} => ret[1].sess.tranid = call.sess.tranid
            /\ as # {} =>
                  ret[1].sess.tranid =
                     IF recs[last].typ = envTypBeginTran THEN recs[last].val ELSE 0
            /\ (stop <= Len(recs) /\ recs[stop].typ = envTypBeginTran) =>
                  ret[1].out = "badstream"
            /\ (stop <= Len(recs) /\ recs[stop].typ = envTypBeginTran
                   /\ recs[stop].len # 8) =>
                  ret[1].sess.tranid =
                     processEnvChg(call.sess, SubSeq(recs, 1, stop - 1)).sess.tranid

\* a CommitTran cleared the tranid of a session in a transaction, and the
\* BeginTran of 7 bytes after it raised BadStream and left it cleared
C17_Witness ==
    /\ EnvChgCalled
    /\ call.sess.tranid = 2
    /\ Len(call.recs) = 2
    /\ call.recs[1].typ = envTypCommitTran
    /\ call.recs[1].err = ""
    /\ call.recs[2].typ = envTypBeginTran
    /\ call.recs[2].len = 7
    /\ ret[1].out = "badstream"
    /\ ret[1].sess.tranid = 0

(* ------------------------------------------------------------------ *)
(* FEDAUTHINFO, COLMETADATA on their own                               *)
(* ------------------------------------------------------------------ *)
\* C18, as stated: parseFedAuthInfo raises BadStream or takes only slices
\* inside the blob it read; it never evaluates a slice with a bound outside
\* the blob, and never allocates a blob of length size - offset (modulo
\* 2^32) when size is less than the length of the header.
C18_FedAuthStaysInBlob ==
    (call.fn = "parseFedAuthInfo" /\ ret # <<>>) =>
        /\ ret[1].out \in {"ok", "badstream"}
        /\ ~ret[1].wrapped

\* C19, as stated: every column parseColMetadata72 yields with crypto
\* metadata attached has an ordinal below the number of entries of the CEK
\* table and the entry of that ordinal, not nil; an encrypted column of a
\* session with Always Encrypted whose ordinal is out of range, the table
\* being empty or absent included, aborts the response.
C19_EncryptedColumnHasEntry ==
    (call.fn = "parseColMetadata72" /\ ret # <<>> /\ ret[1].out = "ok") =>
        \A k \in 1..Len(ret[1].columns) :
           ret[1].columns[k].cryptoMeta =>
              /\ ret[1].columns[k].ordinal < call.tableSize
              /\ ret[1].columns[k].entry # 0
              /\ ret[1].columns[k].entry = ret[1].columns[k].ordinal + 1

(* ------------------------------------------------------------------ *)
(* routing                                                             *)
(* ------------------------------------------------------------------ *)
\* the routing sub-record at which processEnvChg ends on tok, its reads
\* having succeeded and its protocol not being 0; 0 if there is none
RoutingAbortAt(tok) ==
    IF tok.tag = tokenEnvChange /\ tok.dec = "ok"
          /\ StopAt(tok.arg) <= Len(tok.arg)
          /\ tok.arg[StopAt(tok.arg)].typ = envRouting
          /\ tok.arg[StopAt(tok.arg)].err = ""
          /\ tok.arg[StopAt(tok.arg)].proto # 0
    THEN StopAt(tok.arg)
    ELSE 0

\* the routed server and port after the sub-records recs, as the claim has
\* them: a routing sub-record of protocol 0 sets both, no other changes them
RECURSIVE RoutedBy(_, _)
RoutedBy(route, recs) ==
    IF recs = <<>> \/ Stops(Head(recs)) THEN route
    ELSE RoutedBy(IF Head(recs).typ = envRouting
                  THEN <<Head(recs).val, Head(recs).port>>
                  ELSE route,
                  Tail(recs))

\* the same after the tokens of w
RECURSIVE RoutedAfter(_, _)
RoutedAfter(route, w) ==
    IF w = <<>> THEN route
    ELSE RoutedAfter(IF Head(w).tag = tokenEnvChange /\ Head(w).dec = "ok"
                     THEN RoutedBy(route, Head(w).arg)
                     ELSE route,
                     Tail(w))

RECURSIVE ClearCells(_, _, _)
ClearCells(row, pres, k) ==
    IF k > Len(row) THEN <<>>
    ELSE (IF pres[k] THEN <<>> ELSE <<row[k]>>) \o ClearCells(row, pres, k + 1)

RowsCalled == call.fn = "rows" /\ Len(ret) = 2

\* C22, as stated: for the columns whose bit in the null bitmap is clear
\* parseNbcRow makes the cells, and ends with the outcome, that parseRow
\* makes of the same cell bytes, a null cell of an encrypted column staying
\* null with no decryption attempted; for the columns whose bit is set the
\* cell is null and nothing is read from the wire.
C22_NbcRowAsRow ==
    RowsCalled =>
        /\ ret[1].out = ret[2].out
        /\ ClearCells(ret[1].row, call.pres, 1) = ret[2].row
        /\ ret[1].indexed = ret[2].indexed
        /\ ret[1].reads = ret[2].reads
        /\ \A k \in 1..Len(ret[1].row) : call.pres[k] => ret[1].row[k] = NullCell

\* C23, as stated: decrypting a cell indexes the CEK values of the column's
\* entry at position 0 only, for the encrypted key and for the algorithm
\* version, whatever the column's ordinal is.
C23_FirstCekValueOnly ==
    (call.fn = "rows" /\ ret # <<>>) =>
        \A n \in 1..Len(ret) :
           /\ ret[n].indexed \subseteq {0}
           /\ \A k \in 1..Len(ret[n].row) :
                 ret[n].row[k].kind = "plain" =>
                    /\ ret[n].row[k].ver = CekValues(1)[1].cekVersion
                    /\ ret[n].row[k].key = CekValues(1)[1].encryptedKey

(* ------------------------------------------------------------------ *)
(* scan errors, and the end of the reader tasks                        *)
(* ------------------------------------------------------------------ *)
\* reader i has put a scan error on its channel
ScanErrorSent(i) == \E k \in 1..Len(emitted[i]) : emitted[i][k].msg = "scan error"

\* reader i has sent a value for every token it read
AllSent(i) ==
    \A k \in 1..Len(wire[i]) :
       wire[i][k].tag \in {tokenRow, tokenDone} =>
          \E j \in 1..Len(emitted[i]) : emitted[i][j].idx = k

\* C24, as stated, in the runs whose context is never cancelled: a scan
\* error is not fatal: the reader puts it on the channel and goes on with
\* the loop, and every later token of the response, its terminator
\* included, is put on the channel, which is then closed.
C24_ScanErrorNotFatal ==
    /\ [](\A i \in Readers :
            (rpc[i] = "send" /\ pend[i][1].val.msg = "scan error") =>
               pend[i][1].after = "loop")
    /\ \A i \in Readers :
          ScanErrorSent(i) ~> (ctxDone \/ (closed[i] /\ AllSent(i)))

\* iterateResponse has returned in one of the ways the claim names: at the
\* end of the response, with an error value taken from the channel, after a
\* drain that found the confirmation
ReturnedAsNamed == Returned /\ result \in {"normal", "chanError", "ctxError"}

\* C26, as stated: once iterateResponse has returned, every reader task
\* that was started ends and closes its channel: none stays blocked on a
\* send.
C26_ReadersTerminate ==
    ReturnedAsNamed ~> (\A i \in Readers : rpc[i] # "idle" => closed[i])

(* ------------------------------------------------------------------ *)
(* the bytes of an ENVCHANGE                                           *)
(* ------------------------------------------------------------------ *)
\* C25, as stated: whenever processEnvChg returns without raising an error
\* it has read the two bytes of the size and the bytes the size declares,
\* so that the next token tag is the first byte after the record, also when
\* a sub-record of unknown type made it abandon the rest of the record.
C25_EnvChgConsumesRecord ==
    (call.fn = "envbytes" /\ ret # <<>> /\ ret[1].out \in {"eof", "unknown"}) =>
        ret[1].consumed = 2 + call.size

====
